---- MODULE Spec2Model ----
(***************************************************************************)
(* Model of bulk_list_manager (manager.py, utils.py): the resumable batch  *)
(* run TwitterListManager.process_following, its item pipeline             *)
(* _process_batch / _add_to_list / _unfollow_user, the control calls       *)
(* pause / resume / stop and the checkpoint file written by save_progress. *)
(*                                                                         *)
(* The run is a coroutine: it is suspended only at its awaits.  pc names   *)
(* the await the run is suspended at; one action completes that await and  *)
(* executes the code up to the next await.  pause(), resume() and stop()   *)
(* contain no await of their own and so run atomically between two steps.  *)
(*                                                                         *)
(* The remote collection is a fixed sequence of pages; the page returned   *)
(* for cursor c is pages[c+1] and it carries the continuation cursor c+1   *)
(* unless it is the last one.                                              *)
(*                                                                         *)
(* Spec and FairSpec run the manager with the limits RateLimiter registers *)
(* (187 unfollows and 500 fetches per 900 s): with the collections bounded *)
(* below check_limit admits every call and the 60 s wait loops are never   *)
(* entered.  QuotaSpec runs it with small limits and a clock that          *)
(* advances, so that the wait loops are entered and left.  LimiterSpec     *)
(* calls RateLimiter on its own.                                           *)
(***************************************************************************)
EXTENDS Integers, Sequences, FiniteSets, TLC

VARIABLES
    pages,            \* remote side: the pages get_user_following returns
    ckpt,             \* content of twitter_list_manager_state.json
    processed_users,  \* self.processed_users
    stats,            \* self.stats
    is_paused,        \* self._is_paused
    should_stop,      \* self._should_stop
    pc,               \* await the run is suspended at, "idle" when no run
    mode,             \* argument mode of the current run
    list_id,          \* argument list_id of the current run
    cursor,           \* local cursor of process_following (0 is None)
    following,        \* local following of process_following
    batch,            \* argument users of the _process_batch in progress
    idx,              \* position of the for loop of _process_batch
    outcome,          \* how the last call of process_following ended
    opsStarted,       \* per id: items begun for it in the current run
    handled,          \* ids whose item was finished in the current run
    hist,             \* history: interrupted (a run was cut off by a restart),
                      \* resumed (the current run loaded the checkpoint),
                      \* stoppedRun (stop() was called during the current run)
    errs,             \* number of remote calls that raised so far
    controls,         \* number of calls of pause / stop so far
    restarts,         \* number of restarts of the process so far
    runs,             \* number of runs of process_following started so far
    limits,           \* self.rate_limiter.limits
    now,              \* time.time()
    calls             \* the calls a client made on RateLimiter directly

vars == <<pages, ckpt, processed_users, stats, is_paused, should_stop, pc,
          mode, list_id, cursor, following, batch, idx, outcome,
          opsStarted, handled, hist, errs, controls, restarts, runs,
          limits, now, calls>>

----------------------------------------------------------------------------
(* Bounds *)

MaxPages == 3
MaxFollowing == 2
MaxRuns == 2
MaxEvents == 1
MaxTime == 11      \* the clock counts up to MaxTime, then its origin slides
MaxCalls == 3      \* direct calls on RateLimiter
SmallLimit == 1    \* limit of both operations in QuotaSpec
SmallWindow == 2   \* their window in QuotaSpec

Ids == {"a", "b", "c"}

----------------------------------------------------------------------------
(* Values *)

NoneVal == "None"

Modes == {"add_to_list", "unfollow", "both"}

FetchUserErrors == {"UserNotFound", "UserUnavailable"}

QuotaError == "TooManyRequests"

AuthError == "Unauthorized"

TransportErrors == {"ServerError", "RequestTimeout"}

\* The error kinds the remote calls raise in the model, one of each class
\* the except clauses of manager.py tell apart: UserNotFound (an error of
\* the entity; skipped by the fetch loop), TooManyRequests, and Unauthorized
\* and ServerError (any other exception).
Errors == {"UserNotFound", QuotaError, AuthError, "ServerError"}

Results == {"ok"} \cup Errors

Range(s) == {s[i] : i \in 1..Len(s)}

SeqsUpTo(S, n) == UNION {[1..k -> S] : k \in 0..n}

\* A page lists each account once.
PageSet == {p \in SeqsUpTo(Ids, MaxFollowing) : Cardinality(Range(p)) = Len(p)}

\* The ids of a collection in the order of their first appearance
RECURSIVE FirstSeen(_, _)
FirstSeen(s, seen) ==
    IF s = <<>> THEN seen
    ELSE FirstSeen(Tail(s), IF Head(s) \in Range(seen) THEN seen
                                                       ELSE Append(seen, Head(s)))

RECURSIVE Flatten(_)
Flatten(c) == IF c = <<>> THEN <<>> ELSE Head(c) \o Flatten(Tail(c))

IdOrder == <<"a", "b", "c">>

\* The remote collections: at least one page, and only the last page may be
\* empty (an empty collection is one empty page); at most MaxFollowing
\* entries over all pages; ids are opaque, so they are named in order of
\* appearance.
Collections ==
    {c \in SeqsUpTo(PageSet, MaxPages) :
        /\ Len(c) >= 1
        /\ \A i \in 1..(Len(c) - 1) : c[i] # <<>>
        /\ Len(Flatten(c)) <= MaxFollowing
        /\ LET f == FirstSeen(Flatten(c), <<>>)
           IN  f = SubSeq(IdOrder, 1, Len(f))}

InitStats == [total |-> 0, processed |-> 0, added_to_list |-> 0,
              unfollowed |-> 0, failed |-> 0, mode |-> NoneVal]

NoFile == [exists |-> FALSE]

\* The file after open(path, 'w') truncated it and before json.dump has
\* written the whole document: empty or cut off.
TornFile == [exists |-> TRUE, complete |-> FALSE]

----------------------------------------------------------------------------
(* rate_limiter.py *)

UnfollowLimit == 187
FollowingLimit == 500
Window == 900

Ops == {"unfollow", "get_user_following"}

\* the dataclass RateLimit
RateLimit(l, w) == [limit |-> l, window |-> w, current |-> 0, reset_time |-> 0]

\* RateLimiter.__init__
RateLimiter ==
    [op \in Ops |-> IF op = "unfollow" THEN RateLimit(UnfollowLimit, Window)
                                       ELSE RateLimit(FollowingLimit, Window)]

\* a RateLimiter with small limits
SmallLimiter == [op \in Ops |-> RateLimit(SmallLimit, SmallWindow)]

\* check_limit at time t, the limit after it: reset if the window has passed
check_limit(lim, t) ==
    IF t >= lim.reset_time
    THEN [lim EXCEPT !.current = 0, !.reset_time = t + lim.window]
    ELSE lim

\* what check_limit returns, on the limit it leaves
Admits_Always(lim) == TRUE

Admits(lim) == lim.current < lim.limit

\* increment
increment(lim) == [lim EXCEPT !.current = @ + 1]

\* One unit of time passes.  The clock counts up to MaxTime; from then on
\* its origin moves along with it and the reset times still ahead come
\* one unit nearer.
Elapse(lims) ==
    IF now < MaxTime THEN lims
    ELSE [op \in Ops |-> IF lims[op].reset_time > now
                         THEN [lims[op] EXCEPT !.reset_time = @ - 1]
                         ELSE lims[op]]

----------------------------------------------------------------------------
(* utils.save_state / load_state through save_progress / load_progress *)

\* list(self.processed_users)
list_of_Lossy(S) == SelectSeq(IdOrder, LAMBDA u : u \in S /\ u # "b")

list_of(S) == SelectSeq(IdOrder, LAMBDA u : u \in S)

\* json.dump and json.load on a scalar: None is written as null
json_dump(v) == IF v = NoneVal THEN "null" ELSE v

json_load(v) == IF v = "null" THEN NoneVal ELSE v

\* set(saved_state.get("processed_users", []))
set_of(l) == Range(l)

\* The file save_progress writes, as load_progress and set() read it back:
\* processed_users goes through a list, stats and mode through JSON;
\* list_id is stored only when truthy.
save_progress(pu, st, lid) ==
    [exists |-> TRUE, complete |-> TRUE,
     processed_users |-> set_of(list_of(pu)),
     stats |-> [st EXCEPT !.mode = json_load(json_dump(@))],
     mode |-> json_load(json_dump(st.mode)), list_id |-> lid]

\* saved_state and saved_state.get("mode") == mode
CanResume(saved, m) == saved.exists /\ saved.mode = m

\* the checks of process_following on its arguments
InvalidArgs_ModeOnly(m, lid) == m \notin Modes

InvalidArgs(m, lid) ==
    m \notin Modes \/ (m \in {"add_to_list", "both"} /\ lid = NoneVal)

----------------------------------------------------------------------------
(* Pure pieces of process_following and _process_batch *)

\* new_users: the users of the page whose id is not in processed_users
NewUsers(page, pu) == SelectSeq(page, LAMBDA u : u \notin pu)

\* cursor = getattr(response, 'next_cursor', None)
NextCursor(c) == IF c + 1 < Len(pages) THEN c + 1 ELSE 0

\* self.stats["total"] = len(following) + len(self.processed_users)
Total(fol, pu) == Len(fol) + Cardinality(pu)

\* the check at the top of the for loop of _process_batch
BatchGoesOn_IgnoreStop(i, users) == i <= Len(users) /\ ~is_paused

BatchGoesOn(i, users) == i <= Len(users) /\ ~(should_stop \/ is_paused)

\* self.save_progress(list_id) after _process_batch returned
SaveAfterBatch_Skipped(pu, st) == ckpt

SaveAfterBatch(pu, st) == save_progress(pu, st, list_id)

\* self.save_progress(list_id) in the except clauses of process_following
SaveOnError_Skipped(pu, st) == ckpt

SaveOnError(pu, st) == save_progress(pu, st, list_id)

\* the except clauses of _add_to_list: NotFound and Exception
AddCatches_Nothing(res) == FALSE

AddCatches(res) == res \in Errors

\* the except clauses of _process_batch: the item errors, TooManyRequests
\* and Exception
BatchCatches_Listed(res) == res \in {"UserNotFound", QuotaError}

BatchCatches(res) == res \in Errors

\* first await of an item: _add_to_list unless the mode is unfollow
FirstOp(m) == IF m \in {"add_to_list", "both"} THEN "add" ELSE "unfollow"

Bump(st, field) == [st EXCEPT ![field] = @ + 1]

\* self.processed_users.add(user_id); self.stats["processed"] += 1
MarkProcessed(st) == Bump(st, "processed")

----------------------------------------------------------------------------
\* The state after TwitterListManager() with the rate limiter lims, at time t
InitWith(lims, t) ==
    /\ pages \in Collections
    /\ ckpt = NoFile
    /\ processed_users = {}
    /\ stats = InitStats
    /\ is_paused = FALSE
    /\ should_stop = FALSE
    /\ pc = "idle"
    /\ mode = NoneVal
    /\ list_id = NoneVal
    /\ cursor = 0
    /\ following = <<>>
    /\ batch = <<>>
    /\ idx = 0
    /\ outcome = "none"
    /\ opsStarted = [u \in Ids |-> 0]
    /\ handled = {}
    /\ hist = [interrupted |-> FALSE, resumed |-> FALSE, stoppedRun |-> FALSE]
    /\ errs = 0
    /\ controls = 0
    /\ restarts = 0
    /\ runs = 0
    /\ limits = lims
    /\ now = t
    /\ calls = <<>>

Init == InitWith(RateLimiter, MaxTime)

\* The run leaves process_following, by return or by raising how: its
\* arguments and locals are gone.
Leave(how) ==
    /\ pc' = "idle"
    /\ outcome' = how
    /\ mode' = NoneVal
    /\ list_id' = NoneVal
    /\ cursor' = 0
    /\ following' = <<>>
    /\ batch' = <<>>
    /\ idx' = 0

\* while not await check_limit("get_user_following"): ... sleep(60), with
\* the rate limiter lims: the call is awaited when admitted, else the sleep
AwaitFetch(lims) ==
    LET l == check_limit(lims["get_user_following"], now)
    IN  /\ limits' = [lims EXCEPT !["get_user_following"] = l]
        /\ pc' = IF Admits(l) THEN "fetch" ELSE "wait_fetch"

\* while not await check_limit("unfollow"): ... sleep(60) of _unfollow_user
AwaitUnfollow(lims) ==
    LET l == check_limit(lims["unfollow"], now)
    IN  /\ limits' = [lims EXCEPT !["unfollow"] = l]
        /\ pc' = IF Admits(l) THEN "unfollow" ELSE "wait_unfollow"

\* Top of the while loop of process_following, reached with the locals
\* cursor c and following fol: return when stopped, else await the next page.
LoopTop(c, fol, lims) ==
    IF should_stop
    THEN /\ Leave("returned")
         /\ limits' = lims
    ELSE /\ AwaitFetch(lims)
         /\ cursor' = c
         /\ following' = fol
         /\ batch' = <<>>
         /\ idx' = 0
         /\ UNCHANGED <<outcome, mode, list_id>>

\* The for loop of _process_batch at position i of users, with the manager
\* state pu, st; at its end save_progress and the next loop iteration.
ProcessFrom(i, users, pu, st, c, fol, lims) ==
    /\ processed_users' = pu
    /\ stats' = st
    /\ IF BatchGoesOn(i, users)
       THEN /\ batch' = users
            /\ idx' = i
            /\ cursor' = c
            /\ following' = fol
            /\ IF FirstOp(mode) = "add"
               THEN pc' = "add" /\ limits' = lims
               ELSE AwaitUnfollow(lims)
            /\ opsStarted' = [opsStarted EXCEPT ![users[i]] = @ + 1]
            /\ UNCHANGED <<ckpt, outcome, mode, list_id>>
       ELSE /\ ckpt' = SaveAfterBatch(pu, st)
            /\ LoopTop(c, fol, lims)
            /\ UNCHANGED opsStarted

\* The disturbances of a job (a remote call raises, pause() or stop() is
\* called, the process is restarted) are bounded in number.
MayDisturb == errs + controls + restarts < MaxEvents

\* The result of a remote call: "ok" or an error
NoteResult(res) ==
    /\ res # "ok" => MayDisturb
    /\ errs' = IF res = "ok" THEN errs ELSE errs + 1

\* arguments and locals of process_following that live across awaits
RunLocals == <<mode, list_id, cursor, following>>

\* what no step of a run changes
RunFrame ==
    UNCHANGED <<pages, is_paused, should_stop, hist, controls, restarts, runs,
                now, calls>>

\* process_following(list_id, mode) up to its first await
Start(m, lid) ==
    /\ pc = "idle"
    /\ IF InvalidArgs(m, lid)
       THEN /\ outcome' = "ValueError"
            /\ UNCHANGED <<ckpt, processed_users, stats, pc, mode, list_id,
                           cursor, following, opsStarted, handled, hist, runs>>
       ELSE IF ckpt.exists /\ ~ckpt.complete
       THEN \* json.load raises in load_progress, after stats["mode"] = mode
            /\ outcome' = "JSONDecodeError"
            /\ stats' = [stats EXCEPT !.mode = m]
            /\ UNCHANGED <<ckpt, processed_users, pc, mode, list_id, cursor,
                           following, opsStarted, handled, hist, runs>>
       ELSE /\ runs < MaxRuns
            /\ runs' = runs + 1
            /\ mode' = m
            /\ list_id' = lid
            /\ cursor' = 0
            /\ following' = <<>>
            /\ IF CanResume(ckpt, m)
               THEN /\ processed_users' = ckpt.processed_users
                    /\ stats' = [ckpt.stats EXCEPT !.mode = m]
               ELSE /\ processed_users' = processed_users
                    /\ stats' = [stats EXCEPT !.mode = m]
            /\ hist' = [hist EXCEPT !.resumed = CanResume(ckpt, m),
                                    !.stoppedRun = FALSE]
            /\ pc' = "user_id"
            /\ outcome' = "running"
            /\ opsStarted' = [u \in Ids |-> 0]
            /\ handled' = {}
            /\ UNCHANGED ckpt
    /\ UNCHANGED <<pages, is_paused, should_stop, batch, idx, errs, controls,
                   restarts, limits, now, calls>>

\* await self.client.user_id()
UserId(res) ==
    /\ pc = "user_id"
    /\ NoteResult(res)
    /\ IF res = "ok"
       THEN /\ LoopTop(cursor, following, limits)
            /\ UNCHANGED ckpt
       ELSE /\ ckpt' = SaveOnError(processed_users, stats)
            /\ Leave(res)
            /\ UNCHANGED limits
    /\ UNCHANGED <<processed_users, stats, opsStarted, handled>>
    /\ RunFrame

\* await self.client.get_user_following(...) raised: an error of the user
\* is printed and the loop continues with the same cursor; any other error
\* is saved and raised
FetchFails(res) ==
    /\ pc = "fetch"
    /\ res \in Errors
    /\ IF res \in FetchUserErrors
       THEN /\ LoopTop(cursor, following, limits)
            /\ UNCHANGED <<ckpt, errs>>
       ELSE /\ NoteResult(res)
            /\ ckpt' = SaveOnError(processed_users, stats)
            /\ Leave(res)
            /\ UNCHANGED limits
    /\ UNCHANGED <<processed_users, stats, opsStarted, handled>>
    /\ RunFrame

\* await self.client.get_user_following(...) returned a page
FetchPage ==
    /\ pc = "fetch"
    /\ LET page == pages[cursor + 1]
           new_users == NewUsers(page, processed_users)
           fol == following \o new_users
           nxt == NextCursor(cursor)
           lims == [limits EXCEPT !["get_user_following"] = increment(@)]
       IN  IF page = <<>>
           THEN /\ Leave("returned")
                /\ UNCHANGED <<processed_users, stats, ckpt, opsStarted, limits>>
           ELSE IF nxt = 0
           THEN /\ Leave("returned")
                /\ limits' = lims
                /\ UNCHANGED <<processed_users, stats, ckpt, opsStarted>>
           ELSE ProcessFrom(1, new_users, processed_users,
                            [stats EXCEPT !.total = Total(fol, processed_users)],
                            nxt, fol, lims)
    /\ UNCHANGED <<handled, errs>>
    /\ RunFrame

\* await asyncio.sleep(60) of the wait loop of process_following is over
WaitFetch ==
    /\ pc = "wait_fetch"
    /\ AwaitFetch(limits)
    /\ UNCHANGED <<ckpt, processed_users, stats, batch, idx, outcome,
                   opsStarted, handled, errs, RunLocals>>
    /\ RunFrame

\* await asyncio.sleep(60) of the wait loop of _unfollow_user is over
WaitUnfollow ==
    /\ pc = "wait_unfollow"
    /\ AwaitUnfollow(limits)
    /\ UNCHANGED <<ckpt, processed_users, stats, batch, idx, outcome,
                   opsStarted, handled, errs, RunLocals>>
    /\ RunFrame

\* An exception res of an item reaches the except clauses of _process_batch
\* with the stats st; one they do not catch reaches those of
\* process_following, which save and raise.
ItemRaised(res, st) ==
    IF ~BatchCatches(res)
    THEN /\ ckpt' = SaveOnError(processed_users, st)
         /\ Leave(res)
         /\ stats' = st
         /\ UNCHANGED <<processed_users, opsStarted, limits>>
    ELSE IF res = QuotaError
    THEN /\ pc' = "sleep900"
         /\ stats' = st
         /\ UNCHANGED <<processed_users, ckpt, batch, idx, outcome,
                        opsStarted, limits, RunLocals>>
    ELSE ProcessFrom(idx + 1, batch, processed_users, Bump(st, "failed"),
                     cursor, following, limits)

\* _add_to_list: await asyncio.sleep(2); await self.client.add_list_member.
\* In mode both the sleep(2) of _process_batch and the wait loop of
\* _unfollow_user follow.
AddToList(res) ==
    /\ pc = "add"
    /\ NoteResult(res)
    /\ IF res # "ok" /\ ~AddCatches(res)
       THEN /\ handled' = handled \cup {batch[idx]}
            /\ ItemRaised(res, stats)
       ELSE LET st == IF res = "ok" THEN Bump(stats, "added_to_list")
                                    ELSE Bump(stats, "failed")
            IN  IF mode = "both"
                THEN /\ AwaitUnfollow(limits)
                     /\ stats' = st
                     /\ UNCHANGED <<processed_users, ckpt, batch, idx, outcome,
                                    opsStarted, handled, RunLocals>>
                ELSE /\ handled' = handled \cup {batch[idx]}
                     /\ ProcessFrom(idx + 1, batch,
                                    processed_users \cup {batch[idx]},
                                    MarkProcessed(st), cursor, following, limits)
    /\ RunFrame

\* _unfollow_user: await self.client.unfollow_user(user_id), then increment
Unfollow(res) ==
    /\ pc = "unfollow"
    /\ NoteResult(res)
    /\ handled' = handled \cup {batch[idx]}
    /\ IF res = "ok"
       THEN ProcessFrom(idx + 1, batch, processed_users \cup {batch[idx]},
                        MarkProcessed(Bump(stats, "unfollowed")), cursor,
                        following, [limits EXCEPT !["unfollow"] = increment(@)])
       ELSE ItemRaised(res, stats)
    /\ RunFrame

\* except TooManyRequests: await asyncio.sleep(900), then the next user
Sleep900 ==
    /\ pc = "sleep900"
    /\ ProcessFrom(idx + 1, batch, processed_users, stats, cursor, following,
                   limits)
    /\ UNCHANGED <<handled, errs>>
    /\ RunFrame

\* what pause(), resume() and stop() leave alone
ControlFrame ==
    /\ UNCHANGED <<pages, processed_users, stats, pc, mode, list_id, cursor>>
    /\ UNCHANGED <<following, batch, idx, outcome, opsStarted, handled>>
    /\ UNCHANGED <<errs, restarts, runs, limits, now, calls>>

\* pause(): self._is_paused = True; self.save_progress()
Pause ==
    /\ MayDisturb
    /\ controls' = controls + 1
    /\ is_paused' = TRUE
    /\ ckpt' = save_progress(processed_users, stats, NoneVal)
    /\ UNCHANGED <<should_stop, hist>>
    /\ ControlFrame

\* resume(): self._is_paused = False
Resume ==
    /\ is_paused' = FALSE
    /\ UNCHANGED <<ckpt, should_stop, controls, hist>>
    /\ ControlFrame

\* stop(): self._should_stop = True; self.save_progress()
Stop ==
    /\ MayDisturb
    /\ controls' = controls + 1
    /\ should_stop' = TRUE
    /\ ckpt' = save_progress(processed_users, stats, NoneVal)
    /\ hist' = [hist EXCEPT !.stoppedRun = @ \/ pc # "idle"]
    /\ UNCHANGED is_paused
    /\ ControlFrame

\* The process dies and is started again: TwitterListManager.__init__.
\* Only the file survives, left as file.
Die(file) ==
    /\ MayDisturb
    /\ restarts' = restarts + 1
    /\ ckpt' = file
    /\ processed_users' = {}
    /\ stats' = InitStats
    /\ is_paused' = FALSE
    /\ should_stop' = FALSE
    /\ pc' = "idle"
    /\ mode' = NoneVal
    /\ list_id' = NoneVal
    /\ cursor' = 0
    /\ following' = <<>>
    /\ batch' = <<>>
    /\ idx' = 0
    /\ outcome' = "none"
    /\ opsStarted' = [u \in Ids |-> 0]
    /\ handled' = {}
    /\ hist' = [hist EXCEPT !.interrupted = @ \/ pc # "idle",
                            !.resumed = FALSE, !.stoppedRun = FALSE]
    /\ limits' = [op \in Ops |-> [limits[op] EXCEPT !.current = 0,
                                                    !.reset_time = 0]]
    /\ UNCHANGED <<pages, errs, controls, runs, now, calls>>

\* ... at an await of the run or while idle
Restart == Die(ckpt)

\* ... inside save_state, called by save_progress from pause(), stop() or
\* the run: after open(path, 'w') and before json.dump has finished
CrashInSave == Die(TornFile)

\* wall-clock time advances by one unit
Tick ==
    /\ now' = IF now < MaxTime THEN now + 1 ELSE now
    /\ limits' = Elapse(limits)
    /\ UNCHANGED <<pages, ckpt, processed_users, stats, is_paused, should_stop>>
    /\ UNCHANGED <<pc, mode, list_id, cursor, following, batch, idx, outcome>>
    /\ UNCHANGED <<opsStarted, handled, hist, errs, controls, restarts, runs>>
    /\ UNCHANGED calls

\* what a direct call on RateLimiter leaves alone
LimiterFrame ==
    /\ UNCHANGED <<pages, ckpt, processed_users, stats, is_paused, should_stop>>
    /\ UNCHANGED <<pc, mode, list_id, cursor, following, batch, idx, outcome>>
    /\ UNCHANGED <<opsStarted, handled, hist, errs, controls, restarts, runs>>
    /\ UNCHANGED now

\* a client calls RateLimiter.check_limit(op)
CheckLimit(op) ==
    /\ Len(calls) < MaxCalls
    /\ limits' = [limits EXCEPT ![op] = check_limit(@, now)]
    /\ calls' = Append(calls, <<"check_limit", op, now>>)
    /\ LimiterFrame

\* a client calls RateLimiter.increment(op)
Increment(op) ==
    /\ Len(calls) < MaxCalls
    /\ limits' = [limits EXCEPT ![op] = increment(@)]
    /\ calls' = Append(calls, <<"increment", op, now>>)
    /\ LimiterFrame

\* The calls the front end makes: a list id is passed when the mode adds to
\* a list (example.py creates the list only then); a call with an invalid
\* mode or without the list id it needs is made as well.
StartArgs ==
    {<<"add_to_list", "L1">>, <<"both", "L1">>, <<"unfollow", NoneVal>>,
     <<"both", NoneVal>>, <<"invalid", "L1">>}

RunStep ==
    \/ \E res \in Results : UserId(res)
    \/ \E res \in Errors : FetchFails(res)
    \/ FetchPage
    \/ \E res \in Results : AddToList(res)
    \/ \E res \in Results : Unfollow(res)
    \/ Sleep900

\* the steps of the 60 s wait loops
QuotaStep ==
    \/ WaitFetch
    \/ WaitUnfollow

Next ==
    \/ \E a \in StartArgs : Start(a[1], a[2])
    \/ RunStep
    \/ Pause
    \/ Resume
    \/ Stop
    \/ Restart
    \/ CrashInSave

Spec == Init /\ [][Next]_vars

\* the calls that pass the checks of process_following
ValidArgs == {a \in StartArgs : ~InvalidArgs(a[1], a[2])}

\* The life of one process, which is not restarted: its runs, pause() and
\* stop()
NextInProcess ==
    \/ \E a \in ValidArgs : Start(a[1], a[2])
    \/ RunStep
    \/ Pause
    \/ Stop

\* An awaited remote call returns or raises and a sleep ends: the event loop
\* then resumes the run, as long as the process lives.
FairSpec == Init /\ [][NextInProcess]_vars /\ WF_vars(RunStep)

\* A manager whose rate limiter has small limits, at a time long after the
\* origin of the clock
InitQuota == InitWith(SmallLimiter, MaxTime)

\* Jobs left to themselves while time passes
QuotaNext ==
    \/ \E a \in ValidArgs : Start(a[1], a[2])
    \/ RunStep
    \/ QuotaStep
    \/ Tick

\* The event loop resumes the run and wall-clock time keeps advancing.
QuotaSpec ==
    InitQuota /\ [][QuotaNext]_vars /\ WF_vars(RunStep \/ QuotaStep)
        /\ WF_vars(Tick)

\* A RateLimiter with limit 2 and window 10 for its operations, at time 0
InitLimiter ==
    /\ InitWith([op \in Ops |-> RateLimit(2, 10)], 0)
    /\ pages = << <<>> >>

LimiterNext ==
    \/ \E op \in Ops : CheckLimit(op)
    \/ \E op \in Ops : Increment(op)
    \/ Tick

LimiterSpec == InitLimiter /\ [][LimiterNext]_vars

----------------------------------------------------------------------------
(* Derived notions used by the properties *)

ItemPcs == {"add", "unfollow", "wait_unfollow", "sleep900"}

\* the ids the stored checkpoint holds
CkptIds == IF ckpt.exists /\ ckpt.complete THEN ckpt.processed_users ELSE {}

\* the ids of the page whose items are being processed
CurrentPage == IF pc \in ItemPcs THEN Range(batch) ELSE {}

\* all ids of the remote collection
AllIds == Range(Flatten(pages))

\* no remote call has raised (fetches retried at once aside), pause() and
\* stop() were never called
CleanHistory == errs = 0 /\ controls = 0

\* The stats after one item whose remote calls all succeed
ItemOk(st, m) ==
    LET s1 == IF m \in {"add_to_list", "both"} THEN Bump(st, "added_to_list") ELSE st
        s2 == IF m \in {"unfollow", "both"} THEN Bump(s1, "unfollowed") ELSE s1
    IN  MarkProcessed(s2)

RECURSIVE BatchOk(_, _, _, _)
BatchOk(users, pu, st, m) ==
    IF users = <<>> THEN [processed_users |-> pu, stats |-> st]
    ELSE BatchOk(Tail(users), pu \cup {Head(users)}, ItemOk(st, m), m)

\* The manager state in which an uninterrupted run of process_following
\* whose remote calls all succeed ends, from cursor c on.
RECURSIVE FullRunFrom(_, _, _, _, _)
FullRunFrom(c, fol, pu, st, m) ==
    LET page == pages[c + 1]
        new_users == NewUsers(page, pu)
        fol2 == fol \o new_users
        nxt == NextCursor(c)
    IN  IF page = <<>> \/ nxt = 0
        THEN [processed_users |-> pu, stats |-> st]
        ELSE LET r == BatchOk(new_users, pu,
                              [st EXCEPT !.total = Total(fol2, pu)], m)
             IN  FullRunFrom(nxt, fol2, r.processed_users, r.stats, m)

\* ... of a run in mode m on a new manager with no checkpoint to load
FullRun(m) == FullRunFrom(0, <<>>, {}, [InitStats EXCEPT !.mode = m], m)

\* FullRun is what the first run of the model ends in when nothing fails
\* and nothing interrupts it.
FullRunAgrees ==
    (pc = "idle" /\ outcome = "returned" /\ runs = 1 /\ CleanHistory)
        => /\ processed_users = FullRun(stats.mode).processed_users
           /\ stats = FullRun(stats.mode).stats

----------------------------------------------------------------------------
(* Claims *)

\* C1: during one run the item operations are started at most once for an
\* entity id, also when the id is returned on two fetched pages.
C1_AtMostOnce == \A u \in Ids : opsStarted[u] <= 1

\* C2: an uninterrupted run in mode both on a collection fetched without
\* errors processes every distinct entity of every page, the final page
\* included: processed = added_to_list = unfollowed = number of distinct
\* entities and failed = 0 on return.
C2_FullRunProcessesAll ==
    (pc = "idle" /\ outcome = "returned" /\ runs = 1 /\ CleanHistory
        /\ stats.mode = "both")
        => /\ processed_users = AllIds
           /\ stats.processed = Cardinality(AllIds)
           /\ stats.added_to_list = Cardinality(AllIds)
           /\ stats.unfollowed = Cardinality(AllIds)
           /\ stats.failed = 0

\* C3: a run that loads the checkpoint of an interrupted run of the same
\* mode ends with the processed_users and the stats of one uninterrupted
\* run over the same pages.
C3_ResumeEquivalence ==
    (pc = "idle" /\ outcome = "returned" /\ hist.interrupted /\ hist.resumed
        /\ CleanHistory)
        => /\ processed_users = FullRun(stats.mode).processed_users
           /\ stats = FullRun(stats.mode).stats

\* C4: a run started with a mode other than the stored checkpoint's starts
\* from an empty processed set and zeroed stats.
C4_FreshOnModeMismatch ==
    [][(pc = "idle" /\ pc' = "user_id" /\ ckpt.exists /\ ckpt.mode # mode')
          => /\ processed_users' = {}
             /\ stats' = [InitStats EXCEPT !.mode = mode']]_vars

\* C5: once _process_batch has handled an entity, succeeded or failed, its
\* id is in processed_users.
C5_HandledIsProcessed == handled \subseteq processed_users

\* Once stop() has been called no item is begun for any further entity, and
\* when the stopped run has terminated the stored checkpoint holds exactly
\* the ids processed so far and the run's mode.
StoppedSafely ==
    [][/\ should_stop => \A u \in Ids : opsStarted'[u] <= opsStarted[u]
       /\ (hist'.stoppedRun /\ pc' = "idle")
            => /\ ckpt'.exists
               /\ ckpt'.processed_users = processed_users'
               /\ ckpt'.mode = stats'.mode]_vars

\* C6: once stop() has been called no item is begun for any further entity,
\* the run that was stopped terminates, and the checkpoint stored when it
\* has terminated holds exactly the ids processed so far and the run's mode.
C6_StopEndsRun == StoppedSafely /\ (hist.stoppedRun ~> pc = "idle")

\* a was processed, stop() came before b was begun, the run has returned
C6_Witness ==
    /\ pages = << <<"a">>, <<"b">>, <<>> >>
    /\ hist.stoppedRun /\ pc = "idle" /\ outcome = "returned"
    /\ processed_users = {"a"} /\ opsStarted["b"] = 0
    /\ ckpt.exists /\ ckpt.processed_users = {"a"} /\ ckpt.mode = "both"

\* A step of the run in which the items of a fetched page have all been
\* handled: _process_batch returns
PageHandled ==
    /\ pc' \notin ItemPcs
    /\ \/ pc \in ItemPcs
       \/ pc = "fetch" /\ pages[cursor + 1] # <<>> /\ NextCursor(cursor) # 0
                       /\ FetchPage
    /\ RunStep

\* C7: when the items of a fetched page have been handled, a checkpoint
\* with the current processed_users, stats, list id and mode is written
\* before the next fetch or the return; so the ids of processed_users that
\* the stored checkpoint lacks all belong to the page being processed.
C7_CheckpointPerPage ==
    [][/\ PageHandled => ckpt' = [exists |-> TRUE, complete |-> TRUE,
                                  processed_users |-> processed_users',
                                  stats |-> stats', mode |-> mode,
                                  list_id |-> list_id]
       /\ (processed_users' \ CkptIds') \subseteq CurrentPage']_vars

\* the second item of a page is being processed: the first is processed
\* and not yet stored
C7_Witness ==
    /\ pc \in ItemPcs /\ idx = 2
    /\ processed_users \ CkptIds = {batch[1]}

\* C8: when user_id() or get_user_following() fails with a transport or
\* server error the run halts, the error reaches the caller, and a
\* checkpoint with the current processed_users and stats has been written.
C8_FetchErrorHalts ==
    [][\A e \in TransportErrors :
          (UserId(e) \/ FetchFails(e))
              => /\ pc' = "idle"
                 /\ outcome' = e
                 /\ ckpt'.exists
                 /\ ckpt'.processed_users = processed_users'
                 /\ ckpt'.stats = stats'
                 /\ processed_users' = processed_users
                 /\ stats' = stats]_vars

\* a fetch failed after a page had been processed
C8_Witness ==
    /\ pc = "idle" /\ outcome \in TransportErrors
    /\ processed_users # {}
    /\ ckpt.exists /\ ckpt.processed_users = processed_users
    /\ ckpt.stats = stats

\* C9: when add_list_member or unfollow_user raises TooManyRequests, the run
\* waits 900 s before any further remote call, does not count a failure,
\* and then retries the same item.
C9_QuotaBackoff ==
    [][/\ (AddToList(QuotaError) \/ Unfollow(QuotaError))
            => (pc' = "sleep900" /\ stats'.failed = stats.failed)
       /\ (Sleep900 /\ ~should_stop /\ ~is_paused)
            => (pc' \in {"add", "unfollow"} /\ batch' = batch /\ idx' = idx)]_vars

\* C10: Unauthorized raised by any remote call of a run ends the run and
\* reaches the caller, with the stored checkpoint holding the state of
\* the last completed page.
C10_AuthIsFatal ==
    [][(UserId(AuthError) \/ FetchFails(AuthError) \/ AddToList(AuthError)
            \/ Unfollow(AuthError))
          => /\ pc' = "idle"
             /\ outcome' = AuthError
             /\ ckpt'.exists
             /\ ckpt'.processed_users = processed_users']_vars

\* C11: an error of any kind raised by add_list_member or unfollow_user for
\* an entity does not leave _process_batch: the run is not ended by it, and
\* when the page has a further entity and the run is neither stopped nor
\* paused, the batch goes on with it (after the unfollow of the same entity
\* in mode both, after the 900 s sleep for TooManyRequests).
C11_ItemErrorsIsolated ==
    [][/\ \A e \in Errors :
            (AddToList(e) \/ Unfollow(e))
                => /\ outcome' \in {"running", "returned"}
                   /\ pc' = "idle" => should_stop
                   /\ (idx < Len(batch) /\ ~should_stop /\ ~is_paused)
                        => /\ pc' \in ItemPcs
                           /\ batch' = batch
                           /\ \/ idx' = idx + 1
                              \/ idx' = idx /\ pc' # "add"
       /\ (Sleep900 /\ idx < Len(batch) /\ ~should_stop /\ ~is_paused)
            => (pc' \in ItemPcs /\ batch' = batch /\ idx' = idx + 1)]_vars

\* the unfollow of the first entity of a page failed and the second entity
\* is being processed
C11_Witness ==
    /\ errs = 1 /\ pc \in ItemPcs /\ idx = 2
    /\ batch[1] \in handled /\ batch[1] \notin processed_users
    /\ stats.failed = 1 /\ outcome = "running"

\* C12: process_following called with an invalid mode, or without a list id
\* in mode add_to_list or both, raises ValueError with no remote call
\* awaited, no checkpoint written and processed_users and stats unchanged.
C12_InvalidArgsRejected ==
    [][\A a \in StartArgs :
          (Start(a[1], a[2])
             /\ (a[1] \notin Modes
                   \/ (a[1] \in {"add_to_list", "both"} /\ a[2] = NoneVal)))
              => /\ outcome' = "ValueError"
                 /\ pc' = "idle"
                 /\ UNCHANGED <<ckpt, processed_users, stats, limits>>]_vars

\* a call was rejected on a manager that has processed entities and
\* written a checkpoint
C12_Witness ==
    /\ outcome = "ValueError" /\ pc = "idle"
    /\ ckpt.exists /\ ckpt.complete /\ processed_users # {}

\* two increment calls for op at time 0 and no other call
TwoAtZero(op) ==
    calls = << <<"increment", op, 0>>, <<"increment", op, 0>> >>

\* C13: for a registered operation check_limit returns false iff current >=
\* limit within the current window, and true at or after reset_time; with
\* limit 2 and window 10, after two increment calls at time 0 it returns
\* false at time 5 and true at time 11.
C13_CheckLimit ==
    \A op \in Ops :
        LET lim == limits[op]
            admitted == Admits(check_limit(lim, now))
        IN  /\ ~admitted <=> (lim.current >= lim.limit /\ now < lim.reset_time)
            /\ now >= lim.reset_time => admitted
            /\ (TwoAtZero(op) /\ now = 5) => ~admitted
            /\ (TwoAtZero(op) /\ now = 11) => admitted

\* C14: current <= limit for both operations, in every state of a run under
\* small limits while time passes.
C14_CurrentWithinLimit == \A op \in Ops : limits[op].current <= limits[op].limit

\* an unfollow has filled the limit and the next unfollow waits for the
\* window to pass
C14_Witness ==
    /\ pc = "wait_unfollow"
    /\ limits["unfollow"].current = limits["unfollow"].limit
    /\ stats.unfollowed >= 1

\* C15: in mode both an item begins with the add, the unfollow of an entity
\* is reached from its add only, and it is reached whatever the add
\* returned or raised.
C15_AddThenUnfollow ==
    [][/\ \A r \in Results :
            (AddToList(r) /\ mode = "both")
                => /\ pc' \in {"unfollow", "wait_unfollow"}
                   /\ idx' = idx /\ batch' = batch
       /\ (mode' = "both" /\ \E u \in Ids : opsStarted'[u] > opsStarted[u])
            => pc' = "add"
       /\ (mode = "both" /\ pc' \in {"unfollow", "wait_unfollow"}
             /\ pc \notin {"unfollow", "wait_unfollow"})
            => (pc = "add" /\ idx' = idx)]_vars

\* the add of an entity failed and its unfollow is awaited
C15_Witness ==
    /\ mode = "both" /\ pc = "unfollow" /\ errs = 1
    /\ stats.failed = 1 /\ stats.added_to_list = 0

\* C16: the checkpoint file never holds an empty or partial record.
C16_CheckpointIntact == ckpt.exists => ckpt.complete

PassedIds == UNION {Range(pages[i]) : i \in 1..cursor}

\* C18: in a first run with no error and no stop that is not paused (a
\* pause, if any, was followed by resume()), every entity of the pages
\* already passed to _process_batch has been processed: none was skipped
\* because the pause flag was set when its page was fetched.
C18_ResumeProcessesAll ==
    (pc = "fetch" /\ runs = 1 /\ errs = 0 /\ restarts = 0 /\ ~should_stop
        /\ ~is_paused)
        => PassedIds \subseteq processed_users

\* every wait of the 60 s loops ends
QuotaWaitEnds ==
    (pc \in {"wait_fetch", "wait_unfollow"})
        ~> (pc \notin {"wait_fetch", "wait_unfollow"})

\* every run ends
RunEnds == (pc # "idle") ~> (pc = "idle")

\* C19: while time keeps advancing every quota wait ends and every run of
\* process_following terminates, whatever the remote calls return or raise.
C19_Terminates == QuotaWaitEnds /\ RunEnds

\* C20: a stored checkpoint of mode add_to_list or both holds a list id.
C20_CheckpointHasListId ==
    (ckpt.exists /\ ckpt.complete /\ ckpt.mode \in {"add_to_list", "both"})
        => ckpt.list_id # NoneVal

\* the distinct ids the current run knows: those already processed and
\* those fetched
DiscoveredIds == processed_users \cup Range(following)

\* C21: stats.total never exceeds the number of distinct ids discovered so
\* far: in the first run of a manager the ids already processed plus the
\* fresh ids fetched, counted once each; in every run, resumed ones
\* included, at most the distinct ids of the whole collection.
C21_TotalCountsOnce ==
    /\ (pc # "idle" /\ runs = 1 /\ restarts = 0)
           => stats.total <= Cardinality(DiscoveredIds)
    /\ stats.total <= Cardinality(AllIds)

\* the first run of a new manager: nothing was loaded, nothing is left over
FreshRun == runs = 1 /\ restarts = 0

\* the number of items _process_batch has begun in the current run
RECURSIVE ItemsBegun(_)
ItemsBegun(ids) ==
    IF ids = <<>> THEN 0 ELSE opsStarted[Head(ids)] + ItemsBegun(Tail(ids))

\* stats.processed is the number of ids in processed_users, in the manager
\* and in the stored checkpoint
ProcessedIsCount ==
    /\ stats.processed = Cardinality(processed_users)
    /\ (ckpt.exists /\ ckpt.complete)
           => ckpt.stats.processed = Cardinality(ckpt.processed_users)

\* each item begun has added at most 1 to processed + failed
OnePerItem == stats.processed + stats.failed <= ItemsBegun(IdOrder)

\* C22: in a run that started fresh, and in the checkpoints it writes,
\* stats.processed equals the number of ids in processed_users, and each
\* handled entity adds at most 1 to stats.processed + stats.failed.
C22_CountersAgree == FreshRun => (ProcessedIsCount /\ OnePerItem)

====
